---- MODULE Spec2Model ----
(***************************************************************************)
(* A model of terseparse/types.py: the converter family (Keyword, Str,     *)
(* Bool, Set, List, Dict, Int, Or), each converter's construction and its  *)
(* convert method.                                                         *)
(*                                                                         *)
(* Python strings are sequences of one-character strings.  Names,          *)
(* descriptions and messages are sequences of string pieces (a literal of  *)
(* the source is one piece, an interpolated string contributes its         *)
(* characters).  Python values are tagged records [k, v].  A call returns  *)
(* an outcome [res, log]: res is what the call returned or raised, log the *)
(* events it caused in order (inner converter calls, prints, warnings).    *)
(***************************************************************************)
EXTENDS Integers, Sequences, FiniteSets, TLC

VARIABLES
    conv,      \* the converter last constructed or called
    raw,       \* the input string of the call
    args,      \* the argument list of the last Or construction
    op,        \* the last operation: "none", "init", "or", "convert"
    pc,        \* "ready" before the operation under test, "done" after
    result,    \* what the last operation returned or raised
    calls,     \* inner converter invocations of the last convert, in order
    warnings,  \* log.warn records emitted so far
    stdout     \* values printed so far

vars == <<conv, raw, args, op, pc, result, calls, warnings, stdout>>

----------------------------------------------------------------------------
(* Bounds of the model. *)

MaxIntLen == 4
MaxCollLen == 4
MaxDictLen == 6
MaxBoolLen == 3
MaxArgs == 2
MaxBranches == 4
MaxOrLen == 2
MaxRoundTrip == 30

----------------------------------------------------------------------------
(* Strings and characters. *)

StringsUpTo(A, n) == UNION {[1..k -> A] : k \in 0..n}

\* sep.join(parts)
RECURSIVE Join(_, _)
Join(parts, sep) ==
    IF parts = <<>> THEN <<>>
    ELSE IF Len(parts) = 1 THEN parts[1]
    ELSE parts[1] \o sep \o Join(Tail(parts), sep)

ContainsSeq(s, sub) ==
    \E i \in 1..(Len(s) + 1) :
        /\ i + Len(sub) - 1 <= Len(s)
        /\ SubSeq(s, i, i + Len(sub) - 1) = sub

LowerChars == <<"a","b","c","d","e","f","g","h","i","j","k","l","m",
                "n","o","p","q","r","s","t","u","v","w","x","y","z">>
UpperChars == <<"A","B","C","D","E","F","G","H","I","J","K","L","M",
                "N","O","P","Q","R","S","T","U","V","W","X","Y","Z">>
DigitChars == <<"0","1","2","3","4","5","6","7","8","9">>

IndexIn(seq, c) == CHOOSE i \in 1..Len(seq) : seq[i] = c
IsIn(seq, c) == \E i \in 1..Len(seq) : seq[i] = c

\* The value of a character as a digit (0..35), 37 for any other character.
DigitValue(c) ==
    IF IsIn(DigitChars, c) THEN IndexIn(DigitChars, c) - 1
    ELSE IF IsIn(LowerChars, c) THEN IndexIn(LowerChars, c) + 9
    ELSE IF IsIn(UpperChars, c) THEN IndexIn(UpperChars, c) + 9
    ELSE 37

\* str.lower()
LowerChar(c) == IF IsIn(UpperChars, c) THEN LowerChars[IndexIn(UpperChars, c)] ELSE c
Lower(s) == [i \in 1..Len(s) |-> LowerChar(s[i])]

\* str(n) of an integer
RECURSIVE NatToStr(_)
NatToStr(n) ==
    IF n < 10 THEN <<DigitChars[n + 1]>>
    ELSE NatToStr(n \div 10) \o <<DigitChars[(n % 10) + 1]>>
IntToStr(n) == IF n < 0 THEN <<"-">> \o NatToStr(-n) ELSE NatToStr(n)

\* repr(s) of a string without quotes or escapes in it
Repr(s) == <<"'">> \o s \o <<"'">>

----------------------------------------------------------------------------
(* Python values, results and events. *)

IntV(i) == [k |-> "int", v |-> i]
StrV(s) == [k |-> "str", v |-> s]
BoolV(b) == [k |-> "bool", v |-> b]
ListV(items) == [k |-> "list", v |-> items]
SetV(items) == [k |-> "set", v |-> items]
DictV(obj) == [k |-> "dict", v |-> obj]

\* hash(v) succeeds: lists, sets and dicts are unhashable
Hashable(val) == val.k \in {"int", "str", "bool"}

NoResult == [k |-> "none"]
Return(val) == [k |-> "return", v |-> val]
Raise(exc, msg) == [k |-> "raise", exc |-> exc, msg |-> msg]

Out(res, log) == [res |-> res, log |-> log]
CallEvent(t, s) == [e |-> "call", t |-> t, s |-> s]
PrintEvent(s) == [e |-> "print", s |-> s]
WarnEvent(key, new, old) == [e |-> "warn", key |-> key, new |-> new, old |-> old]

Events(log, kind) == SelectSeq(log, LAMBDA ev : ev.e = kind)

----------------------------------------------------------------------------
(* Type: the behaviour every converter shares. *)

\* Type.__str__
TypeStr(t) == t.name

HasAttr(t, attr) == attr \in DOMAIN t

\* Type.fail: raises ArgumentTypeError with the formatted message
Fail(t, val_str, message) ==
    Raise("ArgumentTypeError",
          Repr(val_str) \o <<" is an invalid <">> \o t.name \o <<">. ">> \o message)

----------------------------------------------------------------------------
(* Constructors.  An object is the record of the attributes __init__ sets. *)

\* Keyword.__init__(key, *args)
KeywordInit(key, rest) ==
    [cls |-> "Keyword",
     name |-> key,
     key |-> key,
     value |-> IF Len(rest) # 1 THEN StrV(key) ELSE rest[1],
     description |-> <<"Keyword(">> \o Repr(key) \o <<")">>]

\* Str.__init__: sets a name and no description
StrInit == [cls |-> "Str", name |-> <<"str">>]

\* Set.__init__(typ)
SetInit(typ) ==
    [cls |-> "Set",
     name |-> <<"set(<">> \o TypeStr(typ) \o <<">)">>,
     description |-> <<"set(<">> \o TypeStr(typ) \o <<">)">>,
     typ |-> typ]

\* List.__init__(typ)
ListInit(typ) ==
    [cls |-> "List",
     name |-> <<"list(<">> \o TypeStr(typ) \o <<">)">>,
     description |-> <<"list(<">> \o TypeStr(typ) \o <<">)">>,
     typ |-> typ]

\* Int.__init__(minval, maxval): a bound is {} for None, {n} when given
IntDomain(minval, maxval) ==
    IF minval # {} /\ maxval # {}
    THEN IntToStr(CHOOSE n \in minval : TRUE) \o <<" <= val < ">>
             \o IntToStr(CHOOSE n \in maxval : TRUE)
    ELSE IF minval # {} THEN IntToStr(CHOOSE n \in minval : TRUE) \o <<" <= val">>
    ELSE IF maxval # {} THEN <<"val < ">> \o IntToStr(CHOOSE n \in maxval : TRUE)
    ELSE <<>>

IntInit(minval, maxval) ==
    [cls |-> "Int",
     name |-> <<"int">>,
     minval |-> minval,
     maxval |-> maxval,
     domain |-> IntDomain(minval, maxval),
     description |-> IF IntDomain(minval, maxval) # <<>>
                     THEN <<"int(">> \o IntDomain(minval, maxval) \o <<")">>
                     ELSE <<"int">>,
     error_message |-> <<"Must satisfy ">> \o IntDomain(minval, maxval)]

\* The order sorted() gives strings: by character code, shorter prefix first
AsciiOrder == <<" ", "'", ",", "-">> \o DigitChars \o <<":", ";", "=">>
                  \o UpperChars \o LowerChars
CharCode(c) == IndexIn(AsciiOrder, c)

RECURSIVE StrLess(_, _)
StrLess(a, b) ==
    IF b = <<>> THEN FALSE
    ELSE IF a = <<>> THEN TRUE
    ELSE IF Head(a) # Head(b) THEN CharCode(Head(a)) < CharCode(Head(b))
    ELSE StrLess(Tail(a), Tail(b))

RECURSIVE SortedKeys(_)
SortedKeys(S) ==
    IF S = {} THEN <<>>
    ELSE LET m == CHOOSE x \in S : \A y \in S \ {x} : StrLess(x, y)
         IN <<m>> \o SortedKeys(S \ {m})

\* Dict.__init__(validator_map)
DictValidatorDescriptions(validator_map) ==
    LET ks == SortedKeys(DOMAIN validator_map)
    IN [i \in 1..Len(ks) |->
           ks[i] \o <<":<">> \o TypeStr(validator_map[ks[i]]) \o <<">">>]

DictInit(validator_map) ==
    [cls |-> "Dict",
     name |-> <<"dict">>,
     validators |-> validator_map,
     validator_descriptions |-> DictValidatorDescriptions(validator_map),
     summary |-> Join(DictValidatorDescriptions(validator_map), <<", ">>),
     description |-> <<"\nDict options: \n  ">>
                        \o Join(DictValidatorDescriptions(validator_map), <<"\n  ">>)]

IsOr(t) == t.cls = "Or"

\* Or.__init__, the loop over types: an Or argument is spliced in, any other appended
RECURSIVE OrFlatten(_, _)

\* the loop appending every argument, an Or included
OrFlattenNested(types, _types) ==
    IF types = <<>> THEN _types
    ELSE OrFlatten(Tail(types), Append(_types, Head(types)))

OrFlatten(types, _types) ==
    IF types = <<>> THEN _types
    ELSE IF IsOr(Head(types))
         THEN OrFlatten(Tail(types), _types \o Head(types).types)
         ELSE OrFlatten(Tail(types), Append(_types, Head(types)))

\* Or.__init__(*types): reading t.description of a branch without one raises
OrInit(types) ==
    LET _types == OrFlatten(types, <<>>)
    IN IF \E i \in 1..Len(_types) : ~HasAttr(_types[i], "description")
       THEN Raise("AttributeError", <<"object has no attribute 'description'">>)
       ELSE Return([cls |-> "Or",
                    name |-> Join([i \in 1..Len(_types) |-> TypeStr(_types[i])], <<"|">>),
                    description |->
                        Join([i \in 1..Len(_types) |-> _types[i].description], <<" or ">>),
                    types |-> _types])

\* Type.__or__(self, obj)
TypeOr(self, obj) == OrInit(<<self, obj>>)

\* class Bool: the second __init__(self, val) replaces the first, so nothing
\* sets true_vals on the new object before it is read; were it set, __init__
\* would return a bool, which object creation rejects
true_vals == {<<"t","r","u","e">>, <<"t">>, <<"1">>, <<"y","e","s">>}

BoolInit(val) ==
    LET self == [cls |-> "Bool"]
    IN IF ~HasAttr(self, "true_vals")
       THEN Raise("AttributeError", <<"object has no attribute 'true_vals'">>)
       ELSE Raise("TypeError", <<"__init__() should return None">>)

----------------------------------------------------------------------------
(* The regular expressions and the built-in int(). *)

Whitespace == {" ", "\t", "\n", "\r", "\f"}

\* the characters list_regex [^,;\s]+ excludes
IsListSep(c) == c \in {",", ";"} \cup Whitespace

\* list_regex.findall(val): the maximal runs of characters that are no separator
RECURSIVE FindAllFrom(_, _, _)
FindAllFrom(s, i, cur) ==
    IF i > Len(s) THEN (IF cur = <<>> THEN <<>> ELSE <<cur>>)
    ELSE IF IsListSep(s[i])
         THEN (IF cur = <<>> THEN <<>> ELSE <<cur>>) \o FindAllFrom(s, i + 1, <<>>)
         ELSE FindAllFrom(s, i + 1, Append(cur, s[i]))

ListRegexFindAll(val) == FindAllFrom(val, 1, <<>>)

\* the characters kv_regex [=:]+ matches
IsKvSep(c) == c \in {"=", ":"}

\* kv_regex.split(pair): the pieces between the runs of = and :, every run splits
RECURSIVE KvSplitFrom(_, _, _, _)
KvSplitFrom(s, i, cur, inRun) ==
    IF i > Len(s) THEN <<cur>>
    ELSE IF IsKvSep(s[i])
         THEN (IF inRun THEN KvSplitFrom(s, i + 1, cur, TRUE)
               ELSE <<cur>> \o KvSplitFrom(s, i + 1, <<>>, TRUE))
         ELSE KvSplitFrom(s, i + 1, Append(cur, s[i]), FALSE)

\* kv_regex.split(pair, 1): only the first run splits
KvRegexSplitFirstRun(pair) ==
    IF \A i \in 1..Len(pair) : ~IsKvSep(pair[i]) THEN <<pair>>
    ELSE LET first == CHOOSE i \in 1..Len(pair) :
                          IsKvSep(pair[i]) /\ \A j \in 1..(i - 1) : ~IsKvSep(pair[j])
             last == CHOOSE i \in first..Len(pair) :
                         /\ \A j \in first..i : IsKvSep(pair[j])
                         /\ i = Len(pair) \/ ~IsKvSep(pair[i + 1])
         IN <<SubSeq(pair, 1, first - 1), SubSeq(pair, last + 1, Len(pair))>>

KvRegexSplit(pair) == KvSplitFrom(pair, 1, <<>>, FALSE)

RECURSIVE ParseDigits(_, _, _)
ParseDigits(digits, base, acc) ==
    IF digits = <<>> THEN acc
    ELSE ParseDigits(Tail(digits), base, acc * base + DigitValue(Head(digits)))

\* int(s, base) for base 10 or 16 on a string without whitespace: an optional
\* sign, for base 16 an optional 0x, then one digit or more; [ok, v], ok false
\* for ValueError
PyInt(s, base) ==
    LET signed == Len(s) >= 1 /\ s[1] \in {"-", "+"}
        body == IF signed THEN Tail(s) ELSE s
        prefixed == /\ base = 16
                    /\ Len(body) >= 2
                    /\ body[1] = "0"
                    /\ body[2] \in {"x", "X"}
        digits == IF prefixed THEN SubSeq(body, 3, Len(body)) ELSE body
    IN IF digits = <<>> \/ \E i \in 1..Len(digits) : DigitValue(digits[i]) >= base
       THEN [ok |-> FALSE, v |-> 0]
       ELSE [ok |-> TRUE,
             v |-> IF signed /\ s[1] = "-"
                   THEN 0 - ParseDigits(digits, base, 0)
                   ELSE ParseDigits(digits, base, 0)]

----------------------------------------------------------------------------
(* The convert methods. *)

RECURSIVE TypeCall(_, _)

\* Keyword.convert
KeywordConvert(self, val) ==
    IF val = self.key THEN Out(Return(self.value), <<>>)
    ELSE Out(Fail(self, val, <<"Must be ">> \o Repr(self.key)), <<>>)

\* Str.convert
StrConvert(self, val) == Out(Return(StrV(val)), <<>>)

\* Set.convert, the loop over the tokens left
RECURSIVE SetLoop(_, _, _, _, _)
SetLoop(self, val, toks, seq, log) ==
    IF toks = <<>> THEN Out(Return(SetV(seq)), log)
    ELSE LET o == TypeCall(self.typ, Head(toks))
         IN IF o.res.k = "raise"
            THEN IF o.res.exc = "ArgumentTypeError"
                 THEN Out(Fail(self, val, self.description \o <<"\n">> \o o.res.msg),
                          log \o o.log)
                 ELSE Out(o.res, log \o o.log)
            ELSE IF ~Hashable(o.res.v)
                 THEN Out(Raise("TypeError", <<"unhashable type">>), log \o o.log)
                 ELSE SetLoop(self, val, Tail(toks), seq \cup {o.res.v}, log \o o.log)

SetConvert(self, val) == SetLoop(self, val, ListRegexFindAll(val), {}, <<>>)

\* List.convert, the loop over the tokens left
RECURSIVE ListLoop(_, _, _, _, _)

\* List.convert's loop inserting each result at the front
ListLoopPrepend(self, val, toks, seq, log) ==
    IF toks = <<>> THEN Out(Return(ListV(seq)), log)
    ELSE LET o == TypeCall(self.typ, Head(toks))
         IN IF o.res.k = "raise"
            THEN IF o.res.exc = "ArgumentTypeError"
                 THEN Out(Fail(self, val, self.description \o <<"\n">> \o o.res.msg),
                          log \o o.log)
                 ELSE Out(o.res, log \o o.log)
            ELSE ListLoop(self, val, Tail(toks), <<o.res.v>> \o seq, log \o o.log)

ListLoop(self, val, toks, seq, log) ==
    IF toks = <<>> THEN Out(Return(ListV(seq)), log)
    ELSE LET o == TypeCall(self.typ, Head(toks))
         IN IF o.res.k = "raise"
            THEN IF o.res.exc = "ArgumentTypeError"
                 THEN Out(Fail(self, val, self.description \o <<"\n">> \o o.res.msg),
                          log \o o.log)
                 ELSE Out(o.res, log \o o.log)
            ELSE ListLoop(self, val, Tail(toks), Append(seq, o.res.v), log \o o.log)

ListConvert(self, val) == ListLoop(self, val, ListRegexFindAll(val), <<>>, <<>>)

\* Dict._convert, the loop over the pairs left; obj maps the keys seen to values
RECURSIVE DictLoop(_, _, _, _)

\* Dict._convert's loop keeping the value a key already has
DictLoopKeepFirst(self, pairs, obj, log) ==
    IF pairs = <<>> THEN Out(Return(DictV(obj)), log)
    ELSE LET parts == KvRegexSplit(Head(pairs))
         IN IF Len(parts) # 2
            THEN Out(Raise("ValueError", <<"wrong number of values to unpack">>), log)
            ELSE IF parts[1] \notin DOMAIN self.validators
            THEN Out(Raise("AssertionError", <<>>), log)
            ELSE LET k == parts[1]
                     o == TypeCall(self.validators[k], parts[2])
                 IN IF o.res.k = "raise" THEN Out(o.res, log \o o.log)
                    ELSE DictLoop(self, Tail(pairs),
                                  [x \in DOMAIN obj \cup {k} |->
                                      IF x \in DOMAIN obj THEN obj[x] ELSE o.res.v],
                                  log \o o.log \o
                                      (IF k \in DOMAIN obj
                                       THEN <<WarnEvent(k, o.res.v, obj[k])>>
                                       ELSE <<>>))

DictLoop(self, pairs, obj, log) ==
    IF pairs = <<>> THEN Out(Return(DictV(obj)), log)
    ELSE LET parts == KvRegexSplit(Head(pairs))
         IN IF Len(parts) # 2
            THEN Out(Raise("ValueError", <<"wrong number of values to unpack">>), log)
            ELSE IF parts[1] \notin DOMAIN self.validators
            THEN Out(Raise("AssertionError", <<>>), log)
            ELSE LET k == parts[1]
                     o == TypeCall(self.validators[k], parts[2])
                 IN IF o.res.k = "raise" THEN Out(o.res, log \o o.log)
                    ELSE DictLoop(self, Tail(pairs),
                                  [x \in DOMAIN obj \cup {k} |->
                                      IF x = k THEN o.res.v ELSE obj[x]],
                                  log \o o.log \o
                                      (IF k \in DOMAIN obj
                                       THEN <<WarnEvent(k, o.res.v, obj[k])>>
                                       ELSE <<>>))

Dict_convert(self, val) == DictLoop(self, ListRegexFindAll(val), <<>>, <<>>)

\* Dict.convert handling ValueError and ArgumentTypeError only
DictConvertNoAssertionHandler(self, val) ==
    LET o == Dict_convert(self, val)
        log == <<PrintEvent(val)>> \o o.log
    IN IF o.res.k = "raise" /\ o.res.exc \in {"ValueError"}
       THEN Out(Fail(self, val, self.description), log)
       ELSE IF o.res.k = "raise" /\ o.res.exc = "ArgumentTypeError"
       THEN Out(Fail(self, val, self.description \o <<"\n">> \o o.res.msg), log)
       ELSE Out(o.res, log)

\* Dict.convert: prints val, then _convert with its three handlers
DictConvert(self, val) ==
    LET o == Dict_convert(self, val)
        log == <<PrintEvent(val)>> \o o.log
    IN IF o.res.k = "raise" /\ o.res.exc \in {"AssertionError", "ValueError"}
       THEN Out(Fail(self, val, self.description), log)
       ELSE IF o.res.k = "raise" /\ o.res.exc = "ArgumentTypeError"
       THEN Out(Fail(self, val, self.description \o <<"\n">> \o o.res.msg), log)
       ELSE Out(o.res, log)

\* Int._convert: base 10, and base 16 when base 10 raises ValueError
Int_convert(val) == IF PyInt(val, 10).ok THEN PyInt(val, 10) ELSE PyInt(val, 16)

\* Int.convert with the upper bound taken as inclusive
IntConvertMaxInclusive(self, val_str) ==
    LET p == Int_convert(val_str)
    IN IF ~p.ok THEN Out(Fail(self, val_str, self.error_message), <<>>)
       ELSE IF \/ (self.minval # {} /\ \E m \in self.minval : p.v < m)
               \/ (self.maxval # {} /\ \E m \in self.maxval : p.v > m)
       THEN Out(Fail(self, val_str, self.error_message), <<>>)
       ELSE Out(Return(IntV(p.v)), <<>>)

\* Int.convert
IntConvert(self, val_str) ==
    LET p == Int_convert(val_str)
    IN IF ~p.ok THEN Out(Fail(self, val_str, self.error_message), <<>>)
       ELSE IF \/ (self.minval # {} /\ \E m \in self.minval : p.v < m)
               \/ (self.maxval # {} /\ \E m \in self.maxval : p.v >= m)
       THEN Out(Fail(self, val_str, self.error_message), <<>>)
       ELSE Out(Return(IntV(p.v)), <<>>)

\* Or.convert, the loop over the branches left
RECURSIVE OrLoop(_, _, _, _)

\* Or.convert's loop going on after a success: the last branch to match wins
OrLoopLastMatch(self, val, types, log) ==
    IF types = <<>>
    THEN Out(Fail(self, val, <<"Must be ">> \o self.description), log)
    ELSE LET o == TypeCall(Head(types), val)
             rest == OrLoop(self, val, Tail(types), log \o o.log)
         IN IF o.res.k = "raise" /\ o.res.exc = "ArgumentTypeError" THEN rest
            ELSE IF rest.res.k = "return" THEN rest
            ELSE Out(o.res, rest.log)

OrLoop(self, val, types, log) ==
    IF types = <<>>
    THEN Out(Fail(self, val, <<"Must be ">> \o self.description), log)
    ELSE LET o == TypeCall(Head(types), val)
         IN IF o.res.k = "raise" /\ o.res.exc = "ArgumentTypeError"
            THEN OrLoop(self, val, Tail(types), log \o o.log)
            ELSE Out(o.res, log \o o.log)

OrConvert(self, val) == OrLoop(self, val, self.types, <<>>)

\* Type.__call__: self.convert(val) of the object's class; the call is logged
TypeCall(self, val) ==
    LET o == CASE self.cls = "Keyword" -> KeywordConvert(self, val)
               [] self.cls = "Str" -> StrConvert(self, val)
               [] self.cls = "Set" -> SetConvert(self, val)
               [] self.cls = "List" -> ListConvert(self, val)
               [] self.cls = "Dict" -> DictConvert(self, val)
               [] self.cls = "Int" -> IntConvert(self, val)
               [] self.cls = "Or" -> OrConvert(self, val)
    IN Out(o.res, <<CallEvent(self, val)>> \o o.log)

----------------------------------------------------------------------------
(* The converters and inputs the specifications range over. *)

NoConv == [cls |-> "none"]

IntAlphabet == {"-", "0", "1", "2", "x", "A"}
IntConverters == {IntInit(mn, mx) : mn \in {{}, {1}}, mx \in {{}, {12}, {27}}}

CollAlphabet == {"1", "2", "x", ",", ";", " "}
InnerTypes ==
    {IntInit({}, {}),
     KeywordInit(<<"1">>, <<>>),
     StrInit,
     ListInit(IntInit({}, {})),
     OrInit(<<KeywordInit(<<"1">>, <<>>), IntInit({}, {})>>).v}
CollConverters == {ListInit(t) : t \in InnerTypes} \cup {SetInit(t) : t \in InnerTypes}

DictAlphabet == {"a", "b", ":", "=", ","}
DictConverters ==
    {DictInit([key \in {<<"a">>, <<"b">>} |->
                  IF key = <<"a">> THEN KeywordInit(<<"b">>, <<>>) ELSE StrInit])}

BoolAlphabet == {"t", "T", "1", "x"}

OrAtoms == {KeywordInit(<<"1">>, <<>>), IntInit({}, {}), StrInit}
SeqsUpTo(S, n) == UNION {[1..k -> S] : k \in 0..n}
InnerOrs ==
    {OrInit(<<a, b>>).v : a, b \in {t \in OrAtoms : HasAttr(t, "description")}}
OrArgs == OrAtoms \cup InnerOrs
OrInputs == StringsUpTo({"1", "x"}, MaxOrLen)

----------------------------------------------------------------------------
(* Actions. *)

InitWith(c, s, a) ==
    /\ conv = c
    /\ raw = s
    /\ args = a
    /\ op = "none"
    /\ pc = "ready"
    /\ result = NoResult
    /\ calls = <<>>
    /\ warnings = <<>>
    /\ stdout = <<>>

\* c(s): the call's result, the inner calls it made, what it logged and printed;
\* the converter object itself is not assigned to
Convert(c, s, next_pc) ==
    LET o == TypeCall(c, s)
        printed == Events(o.log, "print")
    IN /\ conv' = c
       /\ raw' = s
       /\ op' = "convert"
       /\ pc' = next_pc
       /\ result' = o.res
       /\ calls' = Tail(Events(o.log, "call"))
       /\ warnings' = warnings \o Events(o.log, "warn")
       /\ stdout' = stdout \o [i \in 1..Len(printed) |-> printed[i].s]
       /\ UNCHANGED args

\* the converter under test is called on the input
Call ==
    /\ pc = "ready"
    /\ Convert(conv, raw, "done")

\* Bool(raw)
BoolNew ==
    /\ pc = "ready"
    /\ result' = BoolInit(raw)
    /\ op' = "init"
    /\ pc' = "done"
    /\ UNCHANGED <<conv, raw, args, calls, warnings, stdout>>

\* a construction Or(*a): the new object on success
Construct(a, kind) ==
    LET r == OrInit(a)
    IN /\ args' = a
       /\ op' = kind
       /\ result' = r
       /\ conv' = IF r.k = "return" THEN r.v ELSE conv
       /\ pc' = IF r.k = "return" THEN "built" ELSE pc
       /\ UNCHANGED <<raw, calls, warnings, stdout>>

\* Or(*args)
OrNew ==
    /\ pc = "ready"
    /\ Construct(args, "init")

\* conv | x and x | conv
OrPipe ==
    /\ pc = "built"
    /\ \E x \in OrArgs, left \in BOOLEAN :
          LET a == IF left THEN <<conv, x>> ELSE <<x, conv>>
          IN /\ Len(OrFlatten(a, <<>>)) <= MaxBranches
             /\ Construct(a, "or")

\* the Or built last is called on an input
OrCall ==
    /\ pc = "built"
    /\ \E s \in OrInputs : Convert(conv, s, "done")

InitInt == \E c \in IntConverters, s \in StringsUpTo(IntAlphabet, MaxIntLen) :
               InitWith(c, s, <<>>)
InitColl == \E c \in CollConverters, s \in StringsUpTo(CollAlphabet, MaxCollLen) :
                InitWith(c, s, <<>>)
InitDict == \E c \in DictConverters, s \in StringsUpTo(DictAlphabet, MaxDictLen) :
                InitWith(c, s, <<>>)
InitBool == \E s \in StringsUpTo(BoolAlphabet, MaxBoolLen) : InitWith(NoConv, s, <<>>)
InitOr == \E a \in SeqsUpTo(OrArgs, MaxArgs) : InitWith(NoConv, <<>>, a)

NextOr == OrNew \/ OrPipe \/ OrCall

SpecInt == InitInt /\ [][Call]_vars
SpecColl == InitColl /\ [][Call]_vars
SpecDict == InitDict /\ [][Call]_vars
SpecBool == InitBool /\ [][BoolNew]_vars
SpecOr == InitOr /\ [][NextOr]_vars

----------------------------------------------------------------------------
(* Properties of Int.convert. *)

RECURSIVE Pow(_, _)
Pow(b, e) == IF e = 0 THEN 1 ELSE b * Pow(b, e - 1)

RECURSIVE SumTo(_, _)
SumTo(f, n) == IF n = 0 THEN 0 ELSE f[n] + SumTo(f, n - 1)

\* the digits of a text: what follows its sign and, in base 16, its 0x
TextSigned(s) == s # <<>> /\ s[1] \in {"-", "+"}
TextUnsigned(s) == IF TextSigned(s) THEN SubSeq(s, 2, Len(s)) ELSE s
TextPrefixed(s, base) ==
    base = 16 /\ Len(TextUnsigned(s)) >= 2
              /\ SubSeq(TextUnsigned(s), 1, 2) \in {<<"0", "x">>, <<"0", "X">>}
TextDigits(s, base) ==
    IF TextPrefixed(s, base) THEN SubSeq(TextUnsigned(s), 3, Len(TextUnsigned(s)))
    ELSE TextUnsigned(s)

\* s is the text of an integer in the base
IsText(s, base) ==
    /\ TextDigits(s, base) # <<>>
    /\ \A i \in 1..Len(TextDigits(s, base)) : DigitValue(TextDigits(s, base)[i]) < base

\* the integer a text denotes: the sum of its digits times the powers of the base
TextValue(s, base) ==
    LET ds == TextDigits(s, base)
        n == Len(ds)
        magnitude == SumTo([i \in 1..n |-> DigitValue(ds[i]) * Pow(base, n - i)], n)
    IN IF s[1] = "-" THEN 0 - magnitude ELSE magnitude

\* min <= val < max, each bound when given
InRange(t, val) ==
    /\ \A m \in t.minval : m <= val
    /\ \A m \in t.maxval : val < m

IsConversionError(res) == res.k = "raise" /\ res.exc = "ArgumentTypeError"

\* C1: Int.convert(raw) returns v exactly when raw is the base-10 text of v, or is
\* no base-10 text and is the base-16 text of v, and v is in the range (min
\* inclusive, max exclusive); in every other case it fails with a conversion
\* error.  In particular convert(str(v)) returns v for v in the range and fails
\* for v outside it.
IntContract ==
    (pc = "done") =>
        LET base == IF IsText(raw, 10) THEN 10 ELSE 16
            accepted == IsText(raw, base) /\ InRange(conv, TextValue(raw, base))
        IN /\ accepted => result = Return(IntV(TextValue(raw, base)))
           /\ ~accepted => IsConversionError(result)
           /\ \A val \in (0 - MaxRoundTrip)..MaxRoundTrip :
                 raw = IntToStr(val) =>
                     IF InRange(conv, val) THEN result = Return(IntV(val))
                     ELSE IsConversionError(result)

\* the hex text 0x1A converts to 26, below the upper bound 27
IntWitness ==
    /\ pc = "done"
    /\ raw = <<"0", "x", "1", "A">>
    /\ conv.maxval = {27}
    /\ result = Return(IntV(26))

----------------------------------------------------------------------------
(* Properties of Set.convert and List.convert. *)

IsSeparator(c) == c \in {",", ";", " ", "\t", "\n", "\r", "\f"}

\* s[i..j] is a maximal run of characters that are no separator
IsTokenSpan(s, i, j) ==
    /\ i <= j
    /\ \A n \in i..j : ~IsSeparator(s[n])
    /\ i = 1 \/ IsSeparator(s[i - 1])
    /\ j = Len(s) \/ IsSeparator(s[j + 1])

TokenSpans(s) == {sp \in (1..Len(s)) \X (1..Len(s)) : IsTokenSpan(s, sp[1], sp[2])}

\* the tokens of s, left to right
Tokens(s) ==
    LET spans == TokenSpans(s)
    IN [n \in 1..Cardinality(spans) |->
           LET sp == CHOOSE q \in spans :
                         Cardinality({r \in spans : r[1] < q[1]}) = n - 1
           IN SubSeq(s, sp[1], sp[2])]

\* what the inner converter makes of each token
ItemResults(c, s) ==
    LET toks == Tokens(s)
    IN [n \in 1..Len(toks) |-> TypeCall(c.typ, toks[n]).res]

\* every value the converter can return is hashable
RECURSIVE HashableResults(_)
HashableResults(t) ==
    CASE t.cls \in {"Int", "Str"} -> TRUE
      [] t.cls = "Keyword" -> Hashable(t.value)
      [] t.cls = "Or" -> \A i \in 1..Len(t.types) : HashableResults(t.types[i])
      [] OTHER -> FALSE

\* the result of List(T) or Set(T) on raw is the one the claim states
CollectionResultAsClaimed ==
    LET rs == ItemResults(conv, raw)
        failing == {n \in 1..Len(rs) : rs[n].k = "raise"}
    IN IF failing = {}
       THEN IF conv.cls = "List"
            THEN result = Return(ListV([n \in 1..Len(rs) |-> rs[n].v]))
            ELSE result = Return(SetV({rs[n].v : n \in 1..Len(rs)}))
       ELSE /\ IsConversionError(result)
            /\ \E n \in failing :
                  ContainsSeq(result.msg, conv.description \o <<"\n">> \o rs[n].msg)

----------------------------------------------------------------------------
(* Properties of Dict.convert. *)

IsKeyValueSeparator(c) == c \in {":", "="}
HasRun(tok) == \E i \in 1..Len(tok) : IsKeyValueSeparator(tok[i])

\* the first run of : and = in a token that has one
FirstRunStart(tok) ==
    CHOOSE i \in 1..Len(tok) :
        IsKeyValueSeparator(tok[i]) /\ \A j \in 1..(i - 1) : ~IsKeyValueSeparator(tok[j])
FirstRunEnd(tok) ==
    CHOOSE i \in FirstRunStart(tok)..Len(tok) :
        /\ \A j \in FirstRunStart(tok)..i : IsKeyValueSeparator(tok[j])
        /\ i = Len(tok) \/ ~IsKeyValueSeparator(tok[i + 1])

\* the text before the first run, and the whole remainder after it
TokenKey(tok) == SubSeq(tok, 1, FirstRunStart(tok) - 1)
TokenRest(tok) == SubSeq(tok, FirstRunEnd(tok) + 1, Len(tok))

\* a token splits into a key and a value: under "first" when it has a run, under
\* "one" when it has exactly one run
Splits(tok, mode) ==
    /\ HasRun(tok)
    /\ mode = "one" => ~HasRun(TokenRest(tok))

\* the token's key is a field, so its value is handed to the field's converter
Handed(c, tok, mode) == Splits(tok, mode) /\ TokenKey(tok) \in DOMAIN c.validators
ValueResult(c, tok) == TypeCall(c.validators[TokenKey(tok)], TokenRest(tok)).res
Good(c, tok, mode) == Handed(c, tok, mode) /\ ValueResult(c, tok).k = "return"

\* the index of the first token that is not good, one past the last when all are
FirstBad(c, toks, mode) ==
    IF \A n \in 1..Len(toks) : Good(c, toks[n], mode) THEN Len(toks) + 1
    ELSE CHOOSE n \in 1..Len(toks) :
             ~Good(c, toks[n], mode) /\ \A m \in 1..(n - 1) : Good(c, toks[m], mode)

\* the inner calls: one per token up to the first bad one, which is handed to its
\* converter only if it splits and its key is a field
ExpectedCalls(c, toks, mode) ==
    LET bad == FirstBad(c, toks, mode)
        made == IF bad <= Len(toks) /\ Handed(c, toks[bad], mode) THEN bad ELSE bad - 1
    IN [n \in 1..made |-> CallEvent(c.validators[TokenKey(toks[n])], TokenRest(toks[n]))]

DictSplitsAs(mode) ==
    (pc = "done") =>
        LET toks == Tokens(raw)
            bad == FirstBad(conv, toks, mode)
        IN /\ calls = ExpectedCalls(conv, toks, mode)
           /\ (bad <= Len(toks) /\ ~Splits(toks[bad], mode))
                  => result = Fail(conv, raw, conv.description)
           /\ (IsConversionError(result) /\ result # Fail(conv, raw, conv.description))
                  => (bad <= Len(toks) /\ Handed(conv, toks[bad], mode))

\* C9 as stated: each token is split on its first run only, the whole remainder
\* (further runs included) is the value handed to the key's converter, and only a
\* token with no run is a structural failure.
DictSplitsOnFirstRun == DictSplitsAs("first")

\* C9 amended: a token is split on every run; a token with exactly one run gives
\* the key before it and the value after it, handed to the key's converter; a
\* token with no run or with more than one run is a structural failure.
DictSplitsOnEveryRun == DictSplitsAs("one")

\* "b:=a:a" has a second run: nothing is handed to a converter and the conversion
\* fails with the Dict's own description
DictSplitWitness ==
    /\ pc = "done"
    /\ raw = <<"b", ":", "=", "a", ":", "a">>
    /\ calls = <<>>
    /\ result = Fail(conv, raw, conv.description)

\* the mapping from each key of the input to the value of its last occurrence
LastWins(c, toks) ==
    LET keys == {TokenKey(toks[n]) : n \in 1..Len(toks)}
    IN [key \in keys |->
           LET last == CHOOSE n \in 1..Len(toks) :
                           /\ TokenKey(toks[n]) = key
                           /\ \A m \in (n + 1)..Len(toks) : TokenKey(toks[m]) # key
           IN ValueResult(c, toks[last]).v]

\* the occurrences of a key that was already present
Repeats(toks) ==
    {n \in 1..Len(toks) : \E m \in 1..(n - 1) : TokenKey(toks[m]) = TokenKey(toks[n])}

DictLastWinsAs(mode) ==
    (pc = "done") =>
        LET toks == Tokens(raw)
        IN (\A n \in 1..Len(toks) : Good(conv, toks[n], mode)) =>
               /\ result = Return(DictV(LastWins(conv, toks)))
               /\ Len(warnings) = Cardinality(Repeats(toks))
               /\ \A i \in 1..Len(warnings) :
                     \E n \in Repeats(toks) :
                         /\ warnings[i].key = TokenKey(toks[n])
                         /\ warnings[i].new = ValueResult(conv, toks[n]).v

\* C3 as stated: when every token has a separator, a key of the mapping and a
\* value (the remainder after the first run) its converter accepts, the result
\* maps each key to its last occurrence's value, with one warning per repeat.
DictLastWinsAnyRuns == DictLastWinsAs("first")

\* C3 amended: the same when every token has exactly one separator run.
DictLastWins == DictLastWinsAs("one")

\* "b:,b=a": the second b overwrites the first, with one warning
DictLastWinsWitness ==
    /\ pc = "done"
    /\ raw = <<"b", ":", ",", "b", "=", "a">>
    /\ result = Return(DictV([key \in {<<"b">>} |-> StrV(<<"a">>)]))
    /\ warnings = <<WarnEvent(<<"b">>, StrV(<<"a">>), StrV(<<>>))>>

\* C6: an input with a token whose key is no field of the mapping, or with a token
\* that has no run of : or =, fails with a conversion error, whatever the token's
\* position and however many other tokens are valid; no other error escapes.
DictRejects ==
    (pc = "done") =>
        LET toks == Tokens(raw)
        IN (\E n \in 1..Len(toks) :
               \/ ~HasRun(toks[n])
               \/ TokenKey(toks[n]) \notin DOMAIN conv.validators)
               => IsConversionError(result)

\* "b:,ab=": a valid token, then a token whose key ab is no field
DictRejectsWitness ==
    /\ pc = "done"
    /\ raw = <<"b", ":", ",", "a", "b", "=">>
    /\ Len(calls) = 1
    /\ IsConversionError(result)

\* C8: a call to convert writes nothing to any output stream and leaves the
\* converter as it was constructed.
ConvertHasNoSideEffect ==
    [][(op' = "convert") => (stdout' = stdout /\ conv' = conv)]_vars

----------------------------------------------------------------------------
(* Properties of Or. *)

\* the number of branches an argument contributes, and where they start
Width(a) == IF a.cls = "Or" THEN Len(a.types) ELSE 1

RECURSIVE Offset(_, _)
Offset(as, j) == IF j = 1 THEN 0 ELSE Offset(as, j - 1) + Width(as[j - 1])

\* types is the argument list with each Or argument replaced in place by its branches
Spliced(as, types) ==
    /\ Len(types) = Offset(as, Len(as) + 1)
    /\ \A j \in 1..Len(as) :
          \A n \in 1..Width(as[j]) :
              types[Offset(as, j) + n] = IF as[j].cls = "Or" THEN as[j].types[n] ELSE as[j]

\* C7: after any sequence of constructions no Or has an Or as a direct branch, and
\* an Or's branch list is its argument list with each Or argument replaced in
\* place by its branches, so Or(Or(a,b), c) has the branch list of Or(a,b,c).
OrIsFlat ==
    /\ (conv.cls = "Or") => \A i \in 1..Len(conv.types) : conv.types[i].cls # "Or"
    /\ (op \in {"init", "or"} /\ result.k = "return") =>
          /\ Spliced(args, result.v.types)
          /\ OrInit(result.v.types) = result

\* Or(a, b) | c has the three branches a, b, c
OrIsFlatWitness ==
    /\ op = "or"
    /\ result.k = "return"
    /\ Len(args) = 2
    /\ args[1].cls = "Or"
    /\ Len(args[1].types) = 2
    /\ args[2].cls = "Int"
    /\ result.v.types = args[1].types \o <<args[2]>>

\* C2: Or.convert invokes the branches in list order, returns the result of the
\* first branch that succeeds and invokes no branch after it; if every branch
\* fails it fails with a conversion error whose message contains the branches'
\* descriptions joined by " or ".
OrFirstMatchWins ==
    (op = "convert") =>
        LET types == conv.types
            rs == [i \in 1..Len(types) |-> TypeCall(types[i], raw).res]
            matching == {i \in 1..Len(types) : rs[i].k = "return"}
        IN IF matching # {}
           THEN LET first == CHOOSE i \in matching : \A j \in matching : i <= j
                IN /\ result = rs[first]
                   /\ calls = [i \in 1..first |-> CallEvent(types[i], raw)]
           ELSE /\ IsConversionError(result)
                /\ ContainsSeq(result.msg,
                       Join([i \in 1..Len(types) |-> types[i].description], <<" or ">>))
                /\ calls = [i \in 1..Len(types) |-> CallEvent(types[i], raw)]

\* Or(Keyword("1"), Int()) on "1": the keyword wins and Int, which would accept
\* "1" too, is not invoked
OrFirstMatchWitness ==
    /\ op = "convert"
    /\ conv.types = <<KeywordInit(<<"1">>, <<>>), IntInit({}, {})>>
    /\ raw = <<"1">>
    /\ result = Return(StrV(<<"1">>))
    /\ Len(calls) = 1

\* C10: every converter of the family carries a name and a description, so an Or
\* over any sequence of them is constructed, with the names joined by "|" and the
\* descriptions joined by " or ".
OrOverFamilyIsConstructed ==
    (op = "init") =>
        /\ result.k = "return"
        /\ \A i \in 1..Len(args) : HasAttr(args[i], "name") /\ HasAttr(args[i], "description")
        /\ result.v.name =
               Join([i \in 1..Len(result.v.types) |-> result.v.types[i].name], <<"|">>)
        /\ result.v.description =
               Join([i \in 1..Len(result.v.types) |-> result.v.types[i].description],
                    <<" or ">>)

----------------------------------------------------------------------------
(* Properties of Bool. *)

\* C5: Bool is total: for every string s it gives true exactly when lower(s) is
\* one of true, t, 1, yes, false otherwise, and never raises.
BoolIsTotal == (pc = "done") => result = Return(BoolV(Lower(raw) \in true_vals))

====
